---------------------------- MODULE Spec2Model ----------------------------
(***************************************************************************)
(* The three trading loops of the repository (bot.py, forex.py and         *)
(* forex_trading_bot.py) as one state machine.  Init chooses the script    *)
(* that runs (variant); every action is one step of that script between    *)
(* two suspension points.  The venue's answers are chosen by \E.           *)
(*                                                                         *)
(* Prices and money are integers in hundredths (1.00 USD = 100).  Moving   *)
(* averages are fixed-point numbers, in thousandths of a hundredth.        *)
(***************************************************************************)
EXTENDS Integers, Sequences, FiniteSets, TLC

(***************************************************************************)
(* Configuration of the scripts, in hundredths where it is money.          *)
(***************************************************************************)
TRADE_INTERVAL == 1
STAKE == 100
MIN_ATR == 30
DAILY_LOSS_LIMIT == -1000
NONE_SIGNAL_DELAY == 30
HYBRID_MIN_LEN == 35
HYBRID_CANDLES == 60
EMA_FAST == 5
EMA_SLOW == 20
RSI_PERIOD == 14
BB_PERIOD == 20
MACD_FAST == 12
MACD_SLOW == 26
MACD_SIGNAL == 9
VOTE_THRESHOLD == 2
MIN_CONTRACT_DURATION == 1

bot_DERIV_SYMBOLS == <<"R_25", "R_10">>
forex_DERIV_SYMBOLS == <<"R_100", "R_25">>
ftb_DERIV_SYMBOLS == <<"R_100", "R_25">>

(***************************************************************************)
(* Bounds of the model.                                                    *)
(***************************************************************************)
MaxDay == 1        \* midnights that pass during a run
MaxPnl == 200      \* the venue confirms no buy that lifts daily_pnl above this

(***************************************************************************)
(* Small arithmetic helpers.                                               *)
(***************************************************************************)
Max2(a, b) == IF a >= b THEN a ELSE b
Min2(a, b) == IF a <= b THEN a ELSE b
Abs(a) == IF a >= 0 THEN a ELSE -a

RECURSIVE MaxOf(_)
MaxOf(S) == LET x == CHOOSE y \in S : TRUE
            IN IF S = {x} THEN x ELSE Max2(x, MaxOf(S \ {x}))

\* sum of f[i] for i in lo..hi
RECURSIVE SumRange(_, _, _)
SumRange(f, lo, hi) == IF lo > hi THEN 0 ELSE f[hi] + SumRange(f, lo, hi - 1)

\* the last n elements of a sequence (pandas df.iloc[-n:])
Tail_n(s, n) == IF Len(s) <= n THEN s ELSE SubSeq(s, Len(s) - n + 1, Len(s))

(***************************************************************************)
(* Candle windows.  A window is a sequence of candles, oldest first; the   *)
(* empty sequence is the empty DataFrame.                                  *)
(***************************************************************************)
Candle(o, c, spread) ==
    [Open |-> o, High |-> Max2(o, c) + spread, Low |-> Min2(o, c) - spread, Close |-> c]

\* the close of bar i of a window of n bars with the given shape
ShapeClose(shape, n, i) ==
    CASE shape = "flat" -> 1000
      [] shape = "up"   -> IF i = n THEN 1010 ELSE 1000
      [] shape = "down" -> IF i = n THEN 990 ELSE 1000
      [] shape = "rise" -> 1000 + i
      [] shape = "peak" -> IF i = n - 1 THEN 1010 ELSE 1000
      [] shape = "dip"  -> IF i = n - 1 THEN 990 ELSE 1000
      [] shape = "surge" -> 1000 + i + (i * i) \div 8
      [] shape = "fall" -> 1100 - i
      [] shape = "climb" -> 1000 + i + 2 * (i % 2)
      [] shape = "slide" -> 1100 - i - 2 * (i % 2)
      [] shape = "spike" -> 1000 + i + 2 * (i % 2) + (IF i = n THEN 20 ELSE 0)

Window(shape, n, spread) ==
    [i \in 1..n |-> Candle(IF i = 1 THEN ShapeClose(shape, n, 1)
                                    ELSE ShapeClose(shape, n, i - 1),
                           ShapeClose(shape, n, i), spread)]

Close(df) == [i \in 1..Len(df) |-> df[i].Close]

\* fixed-point representation of a price series
Scaled(series) == [i \in 1..Len(series) |-> 1000 * series[i]]

(***************************************************************************)
(* Indicators.                                                             *)
(***************************************************************************)
\* series.ewm(span, adjust=False).mean(): seed = first value, alpha = 2/(span+1)
RECURSIVE ema_from(_, _, _)
ema_from(series, span, acc) ==
    LET t == Len(acc) + 1
    IN  IF t > Len(series) THEN acc
        ELSE ema_from(series, span,
                      Append(acc, IF t = 1 THEN series[1]
                                  ELSE (2 * series[t] + (span - 1) * acc[t - 1])
                                       \div (span + 1)))

ema(series, span) == ema_from(series, span, <<>>)

\* last value of rsi(series, period) as the fraction num/den (= 100*U/(U+D));
\* nan when the rolling window is not full or both averages are zero
rsi(series, period) ==
    LET n == Len(series)
        delta == [i \in 2..n |-> series[i] - series[i - 1]]
        up == [i \in 2..n |-> Max2(delta[i], 0)]
        down == [i \in 2..n |-> Max2(-delta[i], 0)]
        U == SumRange(up, n - period + 1, n)
        D == SumRange(down, n - period + 1, n)
    IN  IF n < period + 1 \/ (U = 0 /\ D = 0)
        THEN [nan |-> TRUE, num |-> 0, den |-> 1]
        ELSE [nan |-> FALSE, num |-> 100 * U, den |-> U + D]

\* last values of bollinger_bands(series, period, stds): with n = period,
\* dev = n*(close - ma) and var = n*(n-1)*std^2, so that
\* close > ma + stds*std  <=>  dev > 0 /\ dev^2*(n-1) > stds^2*n*var
bollinger_bands(series, period, stds) ==
    LET n == Len(series)
        sq == [i \in 1..n |-> series[i] * series[i]]
        s1 == SumRange(series, n - period + 1, n)
        s2 == SumRange(sq, n - period + 1, n)
    IN  IF n < period
        THEN [nan |-> TRUE, dev |-> 0, var |-> 0, n |-> period, stds |-> stds]
        ELSE [nan |-> FALSE, dev |-> period * series[n] - s1,
              var |-> period * s2 - s1 * s1, n |-> period, stds |-> stds]

above_upper(bb) ==
    ~bb.nan /\ bb.dev > 0
            /\ bb.dev * bb.dev * (bb.n - 1) > bb.stds * bb.stds * bb.n * bb.var
below_lower(bb) ==
    ~bb.nan /\ bb.dev < 0
            /\ bb.dev * bb.dev * (bb.n - 1) > bb.stds * bb.stds * bb.n * bb.var

\* the histogram series of macd(series, fast, slow, signal)
macd(series, fast, slow, signal) ==
    LET ema_fast == ema(series, fast)
        ema_slow == ema(series, slow)
        macd_line == [i \in 1..Len(series) |-> ema_fast[i] - ema_slow[i]]
        signal_line == ema(macd_line, signal)
    IN  [i \in 1..Len(series) |-> macd_line[i] - signal_line[i]]

\* 14 times the ATR of hybrid_signal_generator: the sum of the last 14 true
\* ranges, 0 when there are fewer than 14
atr14(df) ==
    LET n == Len(df)
        tr == [i \in 2..n |->
                 Max2(df[i].High - df[i].Low,
                      Max2(Abs(df[i].High - df[i - 1].Close),
                           Abs(df[i].Low - df[i - 1].Close)))]
    IN  IF n - 1 >= 14 THEN SumRange(tr, n - 13, n) ELSE 0


(***************************************************************************)
(* Signal strategies.  0 = NONE, 1 = SELL, 2 = BUY.                        *)
(***************************************************************************)
\* bot.py: the EMA9/EMA21 series of the window and the crossover predicates
ema9_series(df) == ema(Scaled(Close(df)), 9)
ema21_series(df) == ema(Scaled(Close(df)), 21)

bullish_cross(df) ==
    LET n == Len(df)
    IN  ema9_series(df)[n - 1] <= ema21_series(df)[n - 1]
        /\ ema9_series(df)[n] > ema21_series(df)[n]
bearish_cross(df) ==
    LET n == Len(df)
    IN  ema9_series(df)[n - 1] >= ema21_series(df)[n - 1]
        /\ ema9_series(df)[n] < ema21_series(df)[n]

bull_candle(df) == df[Len(df)].Close > df[Len(df) - 1].Close
bear_candle(df) == df[Len(df)].Close < df[Len(df) - 1].Close

\* mutant: the SELL test without the volatility filter
hybrid_signal_generator_sell_unfiltered(df) ==
    IF Len(df) < HYBRID_MIN_LEN
    THEN [signal |-> 0, info |-> <<>>]
    ELSE LET n == Len(df)
             ema9 == ema9_series(df)[n]
             cur == 1000 * df[n].Close
             atr == atr14(df)
             info == <<ema9, ema21_series(df)[n], atr, df[n].Close>>
         IN  IF bullish_cross(df) /\ cur > ema9 /\ bull_candle(df) /\ atr > 14 * MIN_ATR
             THEN [signal |-> 2, info |-> info]
             ELSE IF bearish_cross(df) /\ cur < ema9 /\ bear_candle(df)
             THEN [signal |-> 1, info |-> info]
             ELSE [signal |-> 0, info |-> info]

\* mutant: `or` for the last `and` of the SELL test
hybrid_signal_generator_sell_or(df) ==
    IF Len(df) < HYBRID_MIN_LEN
    THEN [signal |-> 0, info |-> <<>>]
    ELSE LET n == Len(df)
             ema9 == ema9_series(df)[n]
             cur == 1000 * df[n].Close
             atr == atr14(df)
             info == <<ema9, ema21_series(df)[n], atr, df[n].Close>>
         IN  IF bullish_cross(df) /\ cur > ema9 /\ bull_candle(df) /\ atr > 14 * MIN_ATR
             THEN [signal |-> 2, info |-> info]
             ELSE IF (bearish_cross(df) /\ cur < ema9 /\ bear_candle(df))
                     \/ atr > 14 * MIN_ATR
             THEN [signal |-> 1, info |-> info]
             ELSE [signal |-> 0, info |-> info]

\* bot.py hybrid_signal_generator: (signal, info); info is <<>> for the empty
\* dict and <<EMA9, EMA21, 14*ATR, Close>> once the indicators were computed
hybrid_signal_generator(df) ==
    IF Len(df) < HYBRID_MIN_LEN
    THEN [signal |-> 0, info |-> <<>>]
    ELSE LET n == Len(df)
             ema9 == ema9_series(df)[n]
             cur == 1000 * df[n].Close
             atr == atr14(df)
             info == <<ema9, ema21_series(df)[n], atr, df[n].Close>>
         IN  IF bullish_cross(df) /\ cur > ema9 /\ bull_candle(df) /\ atr > 14 * MIN_ATR
             THEN [signal |-> 2, info |-> info]
             ELSE IF bearish_cross(df) /\ cur < ema9 /\ bear_candle(df)
                     /\ atr > 14 * MIN_ATR
             THEN [signal |-> 1, info |-> info]
             ELSE [signal |-> 0, info |-> info]

\* forex.py: one vote of the form
\*   if now > 0 and prev <= 0: buy   elif now < 0 and prev >= 0: sell
\* on the last two values of a difference series d; Python evaluates prev
\* (d.iloc[-2]) only when the first comparison is true, and that raises
\* IndexError on a series of one element
cross_vote(d) ==
    LET n == Len(d)
    IN  IF d[n] > 0
        THEN IF n < 2 THEN "IndexError" ELSE IF d[n - 1] <= 0 THEN "buy" ELSE "none"
        ELSE IF d[n] < 0
        THEN IF n < 2 THEN "IndexError" ELSE IF d[n - 1] >= 0 THEN "sell" ELSE "none"
        ELSE "none"

ema_cross_vote(df) ==
    LET ema_f == ema(Scaled(Close(df)), EMA_FAST)
        ema_s == ema(Scaled(Close(df)), EMA_SLOW)
    IN  cross_vote([i \in 1..Len(df) |-> ema_f[i] - ema_s[i]])

rsi_vote(df) ==
    LET r == rsi(Close(df), RSI_PERIOD)
    IN  IF ~r.nan /\ r.num > 55 * r.den /\ r.num < 90 * r.den THEN "buy"
        ELSE IF ~r.nan /\ r.num < 45 * r.den /\ r.num > 10 * r.den THEN "sell"
        ELSE "none"

\* mutant: the Bollinger vote follows the breakout
bollinger_vote_breakout(df) ==
    LET bb == bollinger_bands(Close(df), BB_PERIOD, 2)
    IN  IF above_upper(bb) THEN "buy" ELSE IF below_lower(bb) THEN "sell" ELSE "none"

\* forex.py lines 178-184: the Bollinger vote
bollinger_vote(df) ==
    LET bb == bollinger_bands(Close(df), BB_PERIOD, 2)
    IN  IF above_upper(bb) THEN "sell" ELSE IF below_lower(bb) THEN "buy" ELSE "none"

macd_vote(df) == cross_vote(macd(Scaled(Close(df)), MACD_FAST, MACD_SLOW, MACD_SIGNAL))

ensemble_votes(df) == <<ema_cross_vote(df), rsi_vote(df), bollinger_vote(df), macd_vote(df)>>

CountVotes(votes, side) == Cardinality({i \in 1..Len(votes) : votes[i] = side})

\* mutant: a tie of at least VOTE_THRESHOLD votes a side decides for BUY
ensemble_decision_tie_buys(votes_buy, votes_sell) ==
    IF votes_buy >= VOTE_THRESHOLD /\ votes_buy >= votes_sell THEN 2
    ELSE IF votes_sell >= VOTE_THRESHOLD /\ votes_sell > votes_buy THEN 1
    ELSE 0

\* forex.py lines 194-199: the final decision of ensemble_signal
ensemble_decision(votes_buy, votes_sell) ==
    IF votes_buy >= VOTE_THRESHOLD /\ votes_buy > votes_sell THEN 2
    ELSE IF votes_sell >= VOTE_THRESHOLD /\ votes_sell > votes_buy THEN 1
    ELSE 0

\* forex.py ensemble_signal: (signal, (votes_buy, votes_sell)), or an exception:
\* df['Close'] raises KeyError on the empty DataFrame
ensemble_signal(df) ==
    IF Len(df) = 0
    THEN [raised |-> TRUE, signal |-> 0, votes |-> <<0, 0>>]
    ELSE LET votes == ensemble_votes(df)
             votes_buy == CountVotes(votes, "buy")
             votes_sell == CountVotes(votes, "sell")
         IN  IF CountVotes(votes, "IndexError") > 0
             THEN [raised |-> TRUE, signal |-> 0, votes |-> <<0, 0>>]
             ELSE [raised |-> FALSE,
                   signal |-> ensemble_decision(votes_buy, votes_sell),
                   votes |-> <<votes_buy, votes_sell>>]

\* forex_trading_bot.py signal_generator: the set of values it can return
\* (random.choice([1, 2]) when no pattern matches)
signal_generator(df) ==
    IF Len(df) < 2 THEN {0}
    ELSE LET n == Len(df)
             open_ == df[n].Open
             close_ == df[n].Close
             prev_open == df[n - 1].Open
             prev_close == df[n - 1].Close
         IN  IF open_ > close_ /\ prev_open < prev_close THEN {1}
             ELSE IF open_ < close_ /\ prev_open > prev_close THEN {2}
             ELSE IF close_ > prev_close THEN {2}
             ELSE IF close_ < prev_close THEN {1}
             ELSE {1, 2}



(***************************************************************************)
(* The venue.  A reply is what one round trip yields: an exception (the    *)
(* connection, the send, the receive or the JSON parse failed) or a        *)
(* message.  The "error" field of a message is absent, present with a      *)
(* falsy value (null, {}, "") or present with a truthy value.              *)
(***************************************************************************)
ErrorField == {"absent", "falsy", "truthy"}

AllSymbols == {"R_10", "R_25", "R_100"}

SymbolReplies ==
    [raise : {TRUE}, auth : {"absent"}, active : {{}}]
    \cup [raise : {FALSE}, auth : ErrorField, active : SUBSET AllSymbols]

\* the windows the venue may serve
Windows ==
    {Window("flat", n, 50) : n \in {0, 1, 2, 27, 28, 34, 35}}
    \cup {Window("up", n, 50) : n \in {2, 27, 28, 34, 35, 61}}
    \cup {Window("down", n, 50) : n \in {2, 28, 35}}
    \cup {Window("up", 35, 1)}

CandleReplies ==
    [raise : {TRUE}, auth : {"absent"}, error : {"absent"}, candles : {<<>>}]
    \cup [raise : {FALSE}, auth : {"absent", "truthy"}, error : {"truthy"},
          candles : {<<>>}]
    \cup [raise : {FALSE}, auth : {"absent", "truthy"}, error : {"absent"},
          candles : Windows]

AuthReplies ==
    [raise : {TRUE}, error : {"absent"}] \cup [raise : {FALSE}, error : {"absent", "truthy"}]

\* id: "absent" (no proposal.id in the message), "null" (present and falsy)
\* or a proposal id
ProposalReplies ==
    [raise : {TRUE}, error : {"absent"}, id : {"absent"}]
    \cup [raise : {FALSE}, error : {"truthy"}, id : {"absent", "p1"}]
    \cup [raise : {FALSE}, error : {"falsy"}, id : {"p1"}]
    \cup [raise : {FALSE}, error : {"absent"}, id : {"absent", "null", "p1", "p2"}]

Profits == {-600, -400, 200}

\* buy: whether the message has a "buy" object; kind: its "profit" is absent,
\* a number, or a value that is no number ("bad")
BuyReplies ==
    [raise : {TRUE}, error : {"absent"}, buy : {FALSE}, kind : {"absent"}, profit : {0}]
    \cup [raise : {FALSE}, error : {"truthy", "absent"}, buy : {FALSE},
          kind : {"absent"}, profit : {0}]
    \cup [raise : {FALSE}, error : {"absent"}, buy : {TRUE}, kind : {"number"},
          profit : Profits]
    \cup [raise : {FALSE}, error : {"absent", "truthy"}, buy : {TRUE},
          kind : {"absent"}, profit : {0}]
    \cup [raise : {FALSE}, error : {"absent"}, buy : {TRUE}, kind : {"bad"}, profit : {0}]

\* contracts_for.available: each entry gives min and max contract duration
DurationReplies ==
    [raise : {TRUE}, available : {<<>>}]
    \cup [raise : {FALSE},
          available : {<<>>, <<[minc |-> 1, maxc |-> 2]>>, <<[minc |-> 2, maxc |-> 3]>>,
                       <<[minc |-> 0, maxc |-> 0]>>,
                       <<[minc |-> 3, maxc |-> 3], [minc |-> 1, maxc |-> 1]>>}]

(***************************************************************************)
(* State.                                                                  *)
(***************************************************************************)
VARIABLES
    variant,      \* the script that runs: "bot", "forex" or "ftb"
    pc,           \* where its trading_loop (or the helper it awaits) stands
    now_date,     \* the wall clock's date
    today_date,   \* bot.py global
    daily_pnl,    \* bot.py global
    symbol,       \* locals of trading_loop
    df,
    signal,
    durations,
    dur,
    votes,        \* forex.py: (votes_buy, votes_sell) of the last evaluation
    ret,          \* what the execution call of this cycle returned
    delay,        \* seconds of the asyncio.sleep the loop is in
    wire,         \* the messages on the connection an execution call has open
    reply,        \* the reply that ended the last fetch or execution call
    outcome,      \* how the current (or last) cycle ended
    slept,        \* seconds slept since the last cycle ended
    dispatched,   \* execution calls made in the current cycle
    pnl_before    \* daily_pnl when the execution call of this cycle began

vars == <<variant, pc, now_date, today_date, daily_pnl, symbol, df, signal, durations,
          dur, votes, ret, delay, wire, reply, outcome, slept, dispatched, pnl_before>>

risk == <<today_date, daily_pnl>>
locals == <<symbol, df, signal, durations, dur, votes>>

NoReply == [op |-> "none"]
NoReturn == [ok |-> FALSE, profit |-> 0]

Init ==
    /\ variant \in {"bot", "forex", "ftb"}
    /\ pc = "top"
    /\ now_date = 0
    /\ today_date = 0
    /\ daily_pnl = 0
    /\ symbol = ""
    /\ df = <<>>
    /\ signal = 0
    /\ durations = <<>>
    /\ dur = 0
    /\ votes = <<0, 0>>
    /\ ret = NoReturn
    /\ delay = 0
    /\ wire = <<>>
    /\ reply = NoReply
    /\ outcome = "none"
    /\ slept = 0
    /\ dispatched = 0
    /\ pnl_before = 0

(***************************************************************************)
(* Messages.                                                               *)
(***************************************************************************)
SendAuthorize == [dir |-> "send", op |-> "authorize"]
RecvAuthorize(e) == [dir |-> "recv", op |-> "authorize", error |-> e]
SendProposal(ctype, sym, d) ==
    [dir |-> "send", op |-> "proposal", amount |-> STAKE, contract_type |-> ctype,
     duration |-> d, symbol |-> sym]
RecvProposal(r) == [dir |-> "recv", op |-> "proposal", error |-> r.error, id |-> r.id]
SendBuy(id, price) == [dir |-> "send", op |-> "buy", buy |-> id, price |-> price]

\* the reply that ended a call
Raised(o) == [op |-> o, raise |-> TRUE]
AuthReply(r) == [op |-> "authorize", raise |-> FALSE, error |-> r.error]
CandlesReply(r) ==
    [op |-> "ticks_history", raise |-> FALSE, auth |-> r.auth, error |-> r.error,
     n |-> Len(r.candles)]
ProposalReply(r) == [op |-> "proposal", raise |-> FALSE, error |-> r.error, id |-> r.id]
BuyReply(r) ==
    [op |-> "buy", raise |-> FALSE, error |-> r.error, buy |-> r.buy, kind |-> r.kind,
     profit |-> r.profit]

\* the first configured symbol the venue lists, else the first configured one
FirstAvailable(symbols, active) ==
    IF \E i \in 1..Len(symbols) : symbols[i] \in active
    THEN symbols[CHOOSE i \in 1..Len(symbols) :
                    /\ symbols[i] \in active
                    /\ \A j \in 1..(i - 1) : symbols[j] \notin active]
    ELSE symbols[1]

\* the loop is at `while True` again, having slept `seconds` (0: no sleep)
\* since the cycle ended with outcome `how`
Pace(seconds, how) ==
    /\ pc' = IF seconds > 0 THEN "sleep" ELSE "top"
    /\ delay' = seconds
    /\ outcome' = how
    /\ slept' = 0

\* the cycle goes on
Running ==
    /\ outcome' = "none"
    /\ slept' = 0
    /\ UNCHANGED delay

\* a new cycle begins
BeginCycle ==
    /\ dispatched' = 0
    /\ ret' = NoReturn
    /\ reply' = NoReply
    /\ pnl_before' = 0

(***************************************************************************)
(* bot.py: the risk-governed loop.                                         *)
(***************************************************************************)
\* mutants of the stop condition: the limit taken as a positive amount, and
\* an exclusive threshold
stop_active_sign(pnl) == pnl >= -DAILY_LOSS_LIMIT
stop_active_exclusive(pnl) == pnl < DAILY_LOSS_LIMIT

\* line 256: the stop condition
stop_active(pnl) == pnl <= DAILY_LOSS_LIMIT

\* mutant: daily_pnl is set to 0 at the top of every cycle
bot_trading_loop_gate_resets_always ==
    /\ variant = "bot"
    /\ pc = "top"
    /\ LET reset == now_date # today_date
           pnl == 0
       IN  /\ daily_pnl' = pnl
           /\ today_date' = IF reset THEN now_date ELSE today_date
           /\ pc' = IF stop_active(pnl) THEN "stopped" ELSE "symbol"
    /\ BeginCycle
    /\ Running
    /\ UNCHANGED <<variant, now_date, locals, wire>>

\* lines 249-258: the day reset and the stop check at the top of a cycle
bot_trading_loop_gate ==
    /\ variant = "bot"
    /\ pc = "top"
    /\ LET reset == now_date # today_date
           pnl == IF reset THEN 0 ELSE daily_pnl
       IN  /\ daily_pnl' = pnl
           /\ today_date' = IF reset THEN now_date ELSE today_date
           /\ pc' = IF stop_active(pnl) THEN "stopped" ELSE "symbol"
    /\ BeginCycle
    /\ Running
    /\ UNCHANGED <<variant, now_date, locals, wire>>

\* get_valid_symbol, lines 29-47: any failure falls back to DERIV_SYMBOLS[0]
bot_get_valid_symbol ==
    /\ variant = "bot"
    /\ pc = "symbol"
    /\ \E r \in SymbolReplies :
          symbol' = IF r.raise \/ r.auth = "truthy"
                    THEN bot_DERIV_SYMBOLS[1]
                    ELSE FirstAvailable(bot_DERIV_SYMBOLS, r.active)
    /\ pc' = "candles"
    /\ UNCHANGED <<variant, now_date, risk, df, signal, durations, dur, votes, ret, delay, wire,
                   reply, outcome, slept, dispatched, pnl_before>>

\* get_deriv_candles, lines 50-77: the window the call returns for a reply
bot_candles(r) ==
    IF r.raise \/ Len(r.candles) = 0 THEN <<>> ELSE Tail_n(r.candles, HYBRID_CANDLES)

\* mutant: only the empty window is refused
bot_not_enough_empty_only(w) == Len(w) = 0

\* line 264: the window is not enough to evaluate
bot_not_enough(w) == Len(w) = 0 \/ Len(w) < HYBRID_MIN_LEN

\* lines 263-267: fetch, and retry after 10 s on an empty or short window
bot_get_deriv_candles ==
    /\ variant = "bot"
    /\ pc = "candles"
    /\ \E r \in CandleReplies :
          /\ df' = bot_candles(r)
          /\ reply' = IF r.raise THEN Raised("ticks_history") ELSE CandlesReply(r)
          /\ IF bot_not_enough(df')
             THEN Pace(10, "nodata")
             ELSE pc' = "evaluate" /\ UNCHANGED <<delay, outcome, slept>>
    /\ UNCHANGED <<variant, now_date, risk, symbol, signal, durations, dur, votes, ret, wire,
                   dispatched, pnl_before>>

\* mutant: the day reset is made again between evaluation and dispatch
bot_evaluate_rechecks ==
    /\ variant = "bot"
    /\ pc = "evaluate"
    /\ signal' = hybrid_signal_generator(df).signal
    /\ daily_pnl' = IF now_date # today_date THEN 0 ELSE daily_pnl
    /\ today_date' = now_date
    /\ IF signal' = 0
       THEN /\ Pace(NONE_SIGNAL_DELAY, "nosignal")
            /\ UNCHANGED <<dispatched, pnl_before>>
       ELSE /\ pc' = "trade"
            /\ dispatched' = dispatched + 1
            /\ pnl_before' = daily_pnl'
            /\ UNCHANGED <<delay, outcome, slept>>
    /\ UNCHANGED <<variant, now_date, symbol, df, durations, dur, votes, ret, wire, reply>>

\* lines 271-285: evaluate; NONE waits 30 s, BUY or SELL calls trade_on_deriv
bot_evaluate ==
    /\ variant = "bot"
    /\ pc = "evaluate"
    /\ signal' = hybrid_signal_generator(df).signal
    /\ IF signal' = 0
       THEN /\ Pace(NONE_SIGNAL_DELAY, "nosignal")
            /\ UNCHANGED <<dispatched, pnl_before>>
       ELSE /\ pc' = "trade"
            /\ dispatched' = dispatched + 1
            /\ pnl_before' = daily_pnl
            /\ UNCHANGED <<delay, outcome, slept>>
    /\ UNCHANGED <<variant, now_date, risk, symbol, df, durations, dur, votes, ret, wire, reply>>

\* lines 286-291: the sleep that follows trade_on_deriv's return value
bot_after_trade(ok) == IF ~ok THEN 10 ELSE TRADE_INTERVAL * 60

\* mutant: trade_on_deriv without its try/except, an exception ends the loop
bot_trade_returns_unhandled(ok, profit, pnl, how) ==
    /\ ret' = [ok |-> ok, profit |-> profit]
    /\ daily_pnl' = pnl
    /\ wire' = <<>>
    /\ IF how = "exception"
       THEN pc' = "stopped" /\ outcome' = how /\ slept' = 0 /\ UNCHANGED delay
       ELSE Pace(bot_after_trade(ok), how)

\* mutant: the call returns with its connection and exchange left open
bot_trade_returns_open(ok, profit, pnl, how) ==
    /\ ret' = [ok |-> ok, profit |-> profit]
    /\ daily_pnl' = pnl
    /\ UNCHANGED wire
    /\ Pace(bot_after_trade(ok), how)

\* trade_on_deriv returns (ok, profit) with daily_pnl set to pnl: the
\* connection closes and the loop paces on ok
bot_trade_returns(ok, profit, pnl, how) ==
    /\ ret' = [ok |-> ok, profit |-> profit]
    /\ daily_pnl' = pnl
    /\ wire' = <<>>
    /\ Pace(bot_after_trade(ok), how)

\* lines 203-204: connect and send authorize; an exception returns (False, 0.0)
bot_trade_on_deriv_connect ==
    /\ variant = "bot"
    /\ pc = "trade"
    /\ \E connected \in BOOLEAN :
          IF connected
          THEN /\ wire' = <<SendAuthorize>>
               /\ pc' = "trade_auth"
               /\ UNCHANGED <<daily_pnl, ret, delay, reply, outcome, slept>>
          ELSE /\ reply' = Raised("connect")
               /\ bot_trade_returns(FALSE, 0, daily_pnl, "exception")
    /\ UNCHANGED <<variant, now_date, today_date, locals, dispatched, pnl_before>>

\* lines 205-220: the authorize reply is read and dropped, the proposal is sent
bot_trade_on_deriv_authorized ==
    /\ variant = "bot"
    /\ pc = "trade_auth"
    /\ \E r \in AuthReplies :
          IF r.raise
          THEN /\ reply' = Raised("authorize")
               /\ bot_trade_returns(FALSE, 0, daily_pnl, "exception")
          ELSE /\ wire' = wire \o <<RecvAuthorize(r.error),
                                    SendProposal(IF signal = 2 THEN "CALL" ELSE "PUT",
                                                 symbol, 1)>>
               /\ pc' = "trade_proposal"
               /\ UNCHANGED <<daily_pnl, ret, delay, reply, outcome, slept>>
    /\ UNCHANGED <<variant, now_date, today_date, locals, dispatched, pnl_before>>

\* lines 221-227: what the proposal reply leads to
bot_proposal_result(r) ==
    IF r.raise THEN "exception"
    ELSE IF r.error = "truthy" THEN "rejected"       \* resp.get("error")
    ELSE IF r.id = "absent" THEN "exception"         \* resp["proposal"]["id"]: KeyError
    ELSE "buy"

bot_trade_on_deriv_proposal ==
    /\ variant = "bot"
    /\ pc = "trade_proposal"
    /\ \E r \in ProposalReplies :
          IF bot_proposal_result(r) = "buy"
          THEN /\ wire' = wire \o <<RecvProposal(r), SendBuy(r.id, STAKE)>>
               /\ pc' = "trade_buy"
               /\ UNCHANGED <<daily_pnl, ret, delay, reply, outcome, slept>>
          ELSE /\ reply' = IF r.raise THEN Raised("proposal") ELSE ProposalReply(r)
               /\ bot_trade_returns(FALSE, 0, daily_pnl, bot_proposal_result(r))
    /\ UNCHANGED <<variant, now_date, today_date, locals, dispatched, pnl_before>>

\* mutant: the stake is booked as lost when the buy is not confirmed
bot_buy_result_books_stake(r, pnl) ==
    IF r.raise THEN [ok |-> FALSE, profit |-> 0, pnl |-> pnl, how |-> "exception"]
    ELSE IF ~r.buy THEN [ok |-> FALSE, profit |-> 0, pnl |-> pnl - STAKE, how |-> "missing"]
    ELSE IF r.kind = "bad"
    THEN [ok |-> FALSE, profit |-> 0, pnl |-> pnl, how |-> "exception"]
    ELSE LET profit == IF r.kind = "absent" THEN 0 ELSE r.profit
         IN  [ok |-> TRUE, profit |-> profit, pnl |-> pnl + profit, how |-> "traded"]

\* mutant: the profit is added twice
bot_buy_result_twice(r, pnl) ==
    IF r.raise THEN [ok |-> FALSE, profit |-> 0, pnl |-> pnl, how |-> "exception"]
    ELSE IF ~r.buy THEN [ok |-> FALSE, profit |-> 0, pnl |-> pnl, how |-> "missing"]
    ELSE IF r.kind = "bad"
    THEN [ok |-> FALSE, profit |-> 0, pnl |-> pnl, how |-> "exception"]
    ELSE LET profit == IF r.kind = "absent" THEN 0 ELSE r.profit
         IN  [ok |-> TRUE, profit |-> profit, pnl |-> pnl + profit + profit,
              how |-> "traded"]

\* lines 228-240: what the buy reply leads to, with daily_pnl = pnl at the call
bot_buy_result(r, pnl) ==
    IF r.raise THEN [ok |-> FALSE, profit |-> 0, pnl |-> pnl, how |-> "exception"]
    ELSE IF ~r.buy THEN [ok |-> FALSE, profit |-> 0, pnl |-> pnl, how |-> "missing"]
    ELSE IF r.kind = "bad"                           \* daily_pnl += profit: TypeError
    THEN [ok |-> FALSE, profit |-> 0, pnl |-> pnl, how |-> "exception"]
    ELSE LET profit == IF r.kind = "absent" THEN 0 ELSE r.profit
         IN  [ok |-> TRUE, profit |-> profit, pnl |-> pnl + profit, how |-> "traded"]

bot_trade_on_deriv_buy ==
    /\ variant = "bot"
    /\ pc = "trade_buy"
    /\ \E r \in BuyReplies :
          LET res == bot_buy_result(r, daily_pnl)
          IN  /\ res.pnl <= MaxPnl
              /\ reply' = IF r.raise THEN Raised("buy") ELSE BuyReply(r)
              /\ bot_trade_returns(res.ok, res.profit, res.pnl, res.how)
    /\ UNCHANGED <<variant, now_date, today_date, locals, dispatched, pnl_before>>

(***************************************************************************)
(* forex_trading_bot.py: the simple loop.  Every exception of a cycle is   *)
(* caught by the loop's except clause, which sleeps 10 s (lines 146-148).  *)
(***************************************************************************)
\* get_valid_symbol, lines 15-29 (called at line 125)
ftb_get_valid_symbol ==
    /\ variant = "ftb"
    /\ pc = "top"
    /\ BeginCycle
    /\ \E r \in SymbolReplies :
          IF r.raise
          THEN Pace(10, "exception") /\ UNCHANGED symbol
          ELSE /\ symbol' = FirstAvailable(ftb_DERIV_SYMBOLS, r.active)
               /\ pc' = "candles"
               /\ Running
    /\ UNCHANGED <<variant, now_date, risk, df, signal, durations, dur, votes, wire>>

\* get_deriv_candles, lines 32-58, and the loop's check at lines 128-132
ftb_get_deriv_candles ==
    /\ variant = "ftb"
    /\ pc = "candles"
    /\ \E r \in CandleReplies :
          IF r.raise
          THEN /\ reply' = Raised("ticks_history")
               /\ Pace(10, "exception")
               /\ UNCHANGED df
          ELSE /\ reply' = CandlesReply(r)
               /\ df' = r.candles
               /\ IF Len(df') = 0
                  THEN Pace(5, "nodata")
                  ELSE pc' = "evaluate" /\ UNCHANGED <<delay, outcome, slept>>
    /\ UNCHANGED <<variant, now_date, risk, symbol, signal, durations, dur, votes, ret, wire,
                   dispatched, pnl_before>>

\* lines 135-138: the signal is computed and trade_on_deriv is called with it
ftb_evaluate ==
    /\ variant = "ftb"
    /\ pc = "evaluate"
    /\ \E s \in signal_generator(df) : signal' = s
    /\ pc' = "trade"
    /\ dispatched' = dispatched + 1
    /\ UNCHANGED <<variant, now_date, risk, symbol, df, durations, dur, votes, ret, delay, wire,
                   reply, outcome, slept, pnl_before>>

\* lines 139-144: the sleep that follows trade_on_deriv's return value
\* (`continue` without a sleep when the trade failed)
ftb_after_trade(ok) == IF ~ok THEN 0 ELSE TRADE_INTERVAL * 60

\* trade_on_deriv returns ok
ftb_trade_returns(ok, how) ==
    /\ ret' = [ok |-> ok, profit |-> 0]
    /\ wire' = <<>>
    /\ Pace(ftb_after_trade(ok), how)

\* trade_on_deriv raises: the loop's except clause sleeps 10 s
ftb_trade_raises ==
    /\ wire' = <<>>
    /\ Pace(10, "exception")
    /\ UNCHANGED ret

\* lines 86-87
ftb_trade_on_deriv_connect ==
    /\ variant = "ftb"
    /\ pc = "trade"
    /\ \E connected \in BOOLEAN :
          IF connected
          THEN /\ wire' = <<SendAuthorize>>
               /\ pc' = "trade_auth"
               /\ UNCHANGED <<ret, delay, reply, outcome, slept>>
          ELSE /\ reply' = Raised("connect")
               /\ ftb_trade_raises
    /\ UNCHANGED <<variant, now_date, risk, locals, dispatched, pnl_before>>

\* lines 88-104
ftb_trade_on_deriv_authorized ==
    /\ variant = "ftb"
    /\ pc = "trade_auth"
    /\ \E r \in AuthReplies :
          IF r.raise
          THEN /\ reply' = Raised("authorize")
               /\ ftb_trade_raises
          ELSE /\ wire' = wire \o <<RecvAuthorize(r.error),
                                    SendProposal(IF signal = 2 THEN "CALL" ELSE "PUT",
                                                 symbol, 1)>>
               /\ pc' = "trade_proposal"
               /\ UNCHANGED <<ret, delay, reply, outcome, slept>>
    /\ UNCHANGED <<variant, now_date, risk, locals, dispatched, pnl_before>>

\* lines 105-112: what the proposal reply leads to
ftb_proposal_result(r) ==
    IF r.raise THEN "exception"
    ELSE IF r.error = "truthy" THEN "rejected"      \* "error" in proposal_data
    ELSE IF r.error = "falsy" THEN "exception"      \* ...['error']['message'] raises
    ELSE IF r.id = "absent" THEN "exception"        \* KeyError
    ELSE "buy"

ftb_trade_on_deriv_proposal ==
    /\ variant = "ftb"
    /\ pc = "trade_proposal"
    /\ \E r \in ProposalReplies :
          /\ reply' = IF r.raise THEN Raised("proposal") ELSE ProposalReply(r)
          /\ CASE ftb_proposal_result(r) = "buy" ->
                    /\ wire' = wire \o <<RecvProposal(r), SendBuy(r.id, STAKE)>>
                    /\ pc' = "trade_buy"
                    /\ UNCHANGED <<ret, delay, outcome, slept>>
               [] ftb_proposal_result(r) = "rejected" -> ftb_trade_returns(FALSE, "rejected")
               [] OTHER -> ftb_trade_raises
    /\ UNCHANGED <<variant, now_date, risk, locals, dispatched, pnl_before>>

\* lines 113-116: whatever the buy reply says, the call returns True
ftb_buy_result(r) == IF r.raise THEN "exception" ELSE "traded"

ftb_trade_on_deriv_buy ==
    /\ variant = "ftb"
    /\ pc = "trade_buy"
    /\ \E r \in BuyReplies :
          /\ reply' = IF r.raise THEN Raised("buy") ELSE BuyReply(r)
          /\ IF ftb_buy_result(r) = "traded"
             THEN ftb_trade_returns(TRUE, "traded")
             ELSE ftb_trade_raises
    /\ UNCHANGED <<variant, now_date, risk, locals, dispatched, pnl_before>>

(***************************************************************************)
(* forex.py: the ensemble loop.  Every path of a cycle ends in the sleep   *)
(* of TRADE_INTERVAL minutes (lines 256 and 288).                          *)
(***************************************************************************)
forex_W_MIN == MaxOf({EMA_SLOW, BB_PERIOD, RSI_PERIOD, MACD_SLOW}) + 2

\* get_valid_symbol, lines 74-90
forex_get_valid_symbol ==
    /\ variant = "forex"
    /\ pc = "top"
    /\ BeginCycle
    /\ \E r \in SymbolReplies :
          symbol' = IF r.raise THEN forex_DERIV_SYMBOLS[1]
                    ELSE FirstAvailable(forex_DERIV_SYMBOLS, r.active)
    /\ pc' = "candles"
    /\ Running
    /\ UNCHANGED <<variant, now_date, risk, df, signal, durations, dur, votes, wire>>

\* fetch_candles, lines 115-145: the window the call returns for a reply
forex_candles(r) == IF r.raise THEN <<>> ELSE r.candles

\* line 254
forex_not_enough(w) == Len(w) = 0 \/ Len(w) < forex_W_MIN

\* lines 253-257
forex_fetch_candles ==
    /\ variant = "forex"
    /\ pc = "candles"
    /\ \E r \in CandleReplies :
          /\ df' = forex_candles(r)
          /\ reply' = IF r.raise THEN Raised("ticks_history") ELSE CandlesReply(r)
          /\ IF forex_not_enough(df')
             THEN Pace(TRADE_INTERVAL * 60, "nodata")
             ELSE pc' = "evaluate" /\ UNCHANGED <<delay, outcome, slept>>
    /\ UNCHANGED <<variant, now_date, risk, symbol, signal, durations, dur, votes, ret, wire,
                   dispatched, pnl_before>>

\* lines 260-268: an exception of ensemble_signal is caught at line 286
forex_evaluate ==
    /\ variant = "forex"
    /\ pc = "evaluate"
    /\ LET e == ensemble_signal(df)
       IN  IF e.raised
           THEN Pace(TRADE_INTERVAL * 60, "exception") /\ UNCHANGED <<signal, votes>>
           ELSE /\ signal' = e.signal
                /\ votes' = e.votes
                /\ IF e.signal = 0
                   THEN Pace(TRADE_INTERVAL * 60, "nosignal")
                   ELSE pc' = "durations" /\ UNCHANGED <<delay, outcome, slept>>
    /\ UNCHANGED <<variant, now_date, risk, symbol, df, durations, dur, ret, wire, reply,
                   dispatched, pnl_before>>

\* a finite set of integers as an ascending sequence (sorted(set(...)))
RECURSIVE Sorted(_)
Sorted(S) ==
    IF S = {} THEN <<>>
    ELSE LET m == CHOOSE x \in S : \A y \in S : x <= y
         IN  <<m>> \o Sorted(S \ {m})

\* get_available_durations, lines 92-113
forex_durations(r) ==
    IF r.raise THEN <<>>
    ELSE Sorted({d \in UNION {r.available[i].minc .. r.available[i].maxc :
                                 i \in 1..Len(r.available)} :
                    d >= MIN_CONTRACT_DURATION})

\* mutant: the longest available duration is taken
forex_pick_duration_longest(ds) == ds[Len(ds)]

\* line 273: prefer 1, else the smallest available
forex_pick_duration(ds) == IF \E i \in 1..Len(ds) : ds[i] = 1 THEN 1 ELSE ds[1]

\* lines 268-276
forex_get_available_durations ==
    /\ variant = "forex"
    /\ pc = "durations"
    /\ \E r \in DurationReplies :
          /\ durations' = forex_durations(r)
          /\ IF Len(durations') = 0
             THEN /\ Pace(TRADE_INTERVAL * 60, "noduration")
                  /\ UNCHANGED <<dur, dispatched>>
             ELSE /\ dur' = forex_pick_duration(durations')
                  /\ pc' = "trade"
                  /\ dispatched' = dispatched + 1
                  /\ UNCHANGED <<delay, outcome, slept>>
    /\ UNCHANGED <<variant, now_date, risk, symbol, df, signal, votes, ret, wire, reply,
                   pnl_before>>

\* place_trade returns buy_resp and the loop reports it (lines 276-288):
\* failed when buy_resp is None or has an "error" key, executed otherwise
forex_trade_returns(failed, how) ==
    /\ ret' = [ok |-> ~failed, profit |-> 0]
    /\ wire' = <<>>
    /\ Pace(TRADE_INTERVAL * 60, how)

\* lines 210-211; an exception returns {"error": str(e)}
forex_place_trade_connect ==
    /\ variant = "forex"
    /\ pc = "trade"
    /\ \E connected \in BOOLEAN :
          IF connected
          THEN /\ wire' = <<SendAuthorize>>
               /\ pc' = "trade_auth"
               /\ UNCHANGED <<ret, delay, reply, outcome, slept>>
          ELSE /\ reply' = Raised("connect")
               /\ forex_trade_returns(TRUE, "exception")
    /\ UNCHANGED <<variant, now_date, risk, locals, dispatched, pnl_before>>

\* lines 211-223
forex_place_trade_authorized ==
    /\ variant = "forex"
    /\ pc = "trade_auth"
    /\ \E r \in AuthReplies :
          IF r.raise
          THEN /\ reply' = Raised("authorize")
               /\ forex_trade_returns(TRUE, "exception")
          ELSE /\ wire' = wire \o <<RecvAuthorize(r.error),
                                    SendProposal(IF signal = 2 THEN "CALL" ELSE "PUT",
                                                 symbol, dur)>>
               /\ pc' = "trade_proposal"
               /\ UNCHANGED <<ret, delay, reply, outcome, slept>>
    /\ UNCHANGED <<variant, now_date, risk, locals, dispatched, pnl_before>>

\* lines 224-236: what the proposal reply leads to
forex_proposal_result(r) ==
    IF r.raise THEN "exception"
    ELSE IF r.error # "absent" THEN "rejected"            \* "error" in prop_data
    ELSE IF r.id \in {"absent", "null"} THEN "rejected"   \* no_proposal_id
    ELSE "buy"

forex_place_trade_proposal ==
    /\ variant = "forex"
    /\ pc = "trade_proposal"
    /\ \E r \in ProposalReplies :
          /\ reply' = IF r.raise THEN Raised("proposal") ELSE ProposalReply(r)
          /\ IF forex_proposal_result(r) = "buy"
             THEN /\ wire' = wire \o <<RecvProposal(r), SendBuy(r.id, STAKE)>>
                  /\ pc' = "trade_buy"
                  /\ UNCHANGED <<ret, delay, outcome, slept>>
             ELSE forex_trade_returns(TRUE, forex_proposal_result(r))
    /\ UNCHANGED <<variant, now_date, risk, locals, dispatched, pnl_before>>

\* lines 237-241 and 277-282: what the buy reply leads to
forex_buy_result(r) ==
    IF r.raise THEN "exception"
    ELSE IF r.error # "absent" THEN "rejected"            \* "error" in buy_resp
    ELSE "traded"

forex_place_trade_buy ==
    /\ variant = "forex"
    /\ pc = "trade_buy"
    /\ \E r \in BuyReplies :
          /\ reply' = IF r.raise THEN Raised("buy") ELSE BuyReply(r)
          /\ forex_trade_returns(forex_buy_result(r) # "traded", forex_buy_result(r))
    /\ UNCHANGED <<variant, now_date, risk, locals, dispatched, pnl_before>>

(***************************************************************************)
(* Shared by the three loops.                                              *)
(***************************************************************************)
\* asyncio.sleep(delay) returns and the loop is at `while True` again
asyncio_sleep ==
    /\ pc = "sleep"
    /\ pc' = "top"
    /\ slept' = delay
    /\ UNCHANGED <<variant, now_date, risk, locals, ret, delay, wire, reply, outcome,
                   dispatched, pnl_before>>

\* midnight passes (only bot.py reads the clock)
Midnight ==
    /\ variant = "bot"
    /\ pc # "stopped"
    /\ now_date < MaxDay
    /\ now_date' = now_date + 1
    /\ UNCHANGED <<variant, pc, risk, locals, ret, delay, wire, reply, outcome, slept,
                   dispatched, pnl_before>>

Next ==
    \/ bot_trading_loop_gate
    \/ bot_get_valid_symbol
    \/ bot_get_deriv_candles
    \/ bot_evaluate
    \/ bot_trade_on_deriv_connect
    \/ bot_trade_on_deriv_authorized
    \/ bot_trade_on_deriv_proposal
    \/ bot_trade_on_deriv_buy
    \/ ftb_get_valid_symbol
    \/ ftb_get_deriv_candles
    \/ ftb_evaluate
    \/ ftb_trade_on_deriv_connect
    \/ ftb_trade_on_deriv_authorized
    \/ ftb_trade_on_deriv_proposal
    \/ ftb_trade_on_deriv_buy
    \/ forex_get_valid_symbol
    \/ forex_fetch_candles
    \/ forex_evaluate
    \/ forex_get_available_durations
    \/ forex_place_trade_connect
    \/ forex_place_trade_authorized
    \/ forex_place_trade_proposal
    \/ forex_place_trade_buy
    \/ asyncio_sleep
    \/ Midnight

Spec == Init /\ [][Next]_vars


(***************************************************************************)
(* Properties.                                                             *)
(***************************************************************************)
InTrade == pc \in {"trade", "trade_auth", "trade_proposal", "trade_buy"}

\* the execution call of this cycle has returned or raised
TradeEnded == dispatched = 1 /\ pc \in {"sleep", "top", "stopped"} /\ reply.op # "ticks_history"

\* C1: in bot.py a BUY or SELL signal is dispatched to trade_on_deriv at most
\* once per cycle, and whenever a dispatch is made (and for as long as the
\* call runs) daily_pnl is above DAILY_LOSS_LIMIT.
C1_DispatchOnceAboveLimit ==
    variant = "bot" =>
        /\ dispatched <= 1
        /\ InTrade => /\ dispatched = 1
                      /\ signal \in {1, 2}
                      /\ daily_pnl > DAILY_LOSS_LIMIT
                      /\ pnl_before > DAILY_LOSS_LIMIT

\* a dispatch made after losses that leave the day 2.00 above the limit
C1_Witness ==
    variant = "bot" /\ pc = "trade" /\ dispatched = 1 /\ daily_pnl = DAILY_LOSS_LIMIT + 200

\* C2: in bot.py the loop ends only through the loss-limit check at the top
\* of a cycle: Stopped is entered only from the top and with daily_pnl at or
\* below the limit, every step that ends a cycle (empty or short window,
\* NONE, failed or accepted trade, exception) leads to a sleep and every
\* sleep to the top, and once Stopped no step is taken any more.
C2_SingleExit ==
    [][variant = "bot" =>
          /\ (pc' = "stopped" => pc = "top" /\ daily_pnl' <= DAILY_LOSS_LIMIT)
          /\ (outcome' # "none" /\ pc # "sleep" /\ pc' # pc => pc' = "sleep")
          /\ (pc = "sleep" /\ pc' # pc => pc' = "top")
          /\ pc # "stopped"]_vars

\* the loop has stopped on the loss limit
C2_Witness == variant = "bot" /\ pc = "stopped" /\ daily_pnl <= DAILY_LOSS_LIMIT

\* C3: at the top-of-cycle check of bot.py, on the same day the loop stops
\* exactly when daily_pnl is at or below DAILY_LOSS_LIMIT (in particular
\* when it equals the limit); when the date has advanced, daily_pnl becomes
\* 0, today_date becomes the new date and the loop goes on.
C3_InclusiveDayScoped ==
    [][variant = "bot" /\ pc = "top" /\ pc' # "top" =>
        /\ now_date = today_date =>
              /\ (pc' = "stopped") = (daily_pnl <= DAILY_LOSS_LIMIT)
              /\ daily_pnl = DAILY_LOSS_LIMIT => pc' = "stopped"
              /\ UNCHANGED <<daily_pnl, today_date>>
        /\ now_date # today_date =>
              /\ daily_pnl' = 0
              /\ today_date' = now_date
              /\ pc' = "symbol"]_vars

\* the loop stopped with the day's profits summing to exactly the limit
C3_Witness == variant = "bot" /\ pc = "stopped" /\ daily_pnl = DAILY_LOSS_LIMIT

\* the replies that make trade_on_deriv fail: an exception, a proposal reply
\* the call ended on, a buy reply without "buy" or with a profit that is no
\* number
FailedReply ==
    \/ reply.raise
    \/ reply.op = "proposal"
    \/ reply.op = "buy" /\ (~reply.buy \/ reply.kind = "bad")

\* C4: when trade_on_deriv of bot.py ends on a proposal reply with an error,
\* a buy reply without "buy" or an exception, it returns (False, 0.0) and
\* daily_pnl is what it was before the call.
C4_FailedTradeKeepsPnl ==
    variant = "bot" /\ TradeEnded /\ pc # "stopped" /\ FailedReply =>
        /\ ret = [ok |-> FALSE, profit |-> 0]
        /\ daily_pnl = pnl_before

\* a buy reply without "buy" ended a call made with a day's loss booked
C4_Witness ==
    /\ variant = "bot" /\ pc = "sleep" /\ dispatched = 1
    /\ reply.op = "buy" /\ ~reply.raise /\ ~reply.buy
    /\ pnl_before < 0

\* C5: when trade_on_deriv of bot.py returns (True, p), p is the profit of
\* the buy reply (0.0 when the reply has none) and daily_pnl is its value
\* before the call plus p, once.
C5_AcceptedTradeAddsProfit ==
    variant = "bot" /\ TradeEnded /\ pc # "stopped" /\ ret.ok =>
        /\ reply.op = "buy" /\ ~reply.raise /\ reply.buy
        /\ ret.profit = (IF reply.kind = "number" THEN reply.profit ELSE 0)
        /\ daily_pnl = pnl_before + ret.profit

\* an accepted trade with a loss, made with a day's loss already booked
C5_Witness ==
    /\ variant = "bot" /\ pc = "sleep" /\ ret.ok
    /\ ret.profit = -400 /\ pnl_before = -600 /\ daily_pnl = -1000


\* C6: in every variant a buy request is on the wire only right after a
\* proposal reply of the same call that has no error field, and it echoes
\* the id of that reply with price equal to the stake; a call that ended on
\* a proposal reply sent no buy.
C6_TwoPhaseOrder ==
    \A i \in 1..Len(wire) :
        wire[i].dir = "send" /\ wire[i].op = "buy" =>
            /\ i > 1
            /\ wire[i - 1].dir = "recv" /\ wire[i - 1].op = "proposal"
            /\ wire[i - 1].error = "absent"
            /\ wire[i].buy = wire[i - 1].id
            /\ wire[i].price = STAKE

\* the cycle outcomes that are failures
Failures == {"nodata", "rejected", "missing", "exception", "noduration"}

\* C7: a reply with an error field makes the enclosing operation fail,
\* whatever the operation: nothing is sent on a connection after a reply
\* with an error field, a fetch whose authorize or candle reply had one
\* returns the empty window, and a trade whose call ended on one is not
\* reported as accepted.
C7_ErrorMeansFailure ==
    /\ \A i \in 1..Len(wire) :
          wire[i].dir = "recv" /\ wire[i].error # "absent" =>
              \A j \in (i + 1)..Len(wire) : wire[j].dir # "send"
    /\ reply.op = "ticks_history" /\ ~reply.raise
          /\ (reply.auth # "absent" \/ reply.error # "absent") => df = <<>>
    /\ TradeEnded /\ ~reply.raise /\ reply.op \in {"proposal", "buy"}
          /\ reply.error # "absent" => ~ret.ok /\ outcome \in Failures

\* C8: in every variant a cycle that ended in a failure is back at the top
\* of the loop only after a sleep, and no failure ends the loop.
C8_FailuresPaced ==
    /\ pc = "top" /\ outcome \in Failures => slept > 0
    /\ outcome \in Failures => pc \in {"sleep", "top"}

\* C9: in every variant no execution call is made (so no proposal or buy is
\* sent) with signal 0, and the cycle of a signal 0 ends in a sleep.
C9_NoneNeverDispatched ==
    /\ InTrade \/ pc = "durations" \/ wire # <<>> => signal \in {1, 2}
    /\ outcome = "nosignal" => signal = 0 /\ (pc = "sleep" \/ slept > 0)

(***************************************************************************)
(* The strategies as pure functions: each script's evaluate function is    *)
(* called on a window, whatever its length.                                *)
(***************************************************************************)
StrategyLengths == {0, 1, 2, 3, 19, 20, 27, 28, 34, 35}

StrategyShapes ==
    {"flat", "up", "down", "rise", "peak", "dip", "surge", "fall", "climb", "slide", "spike"}

StrategyWindows ==
    {Window(shape, n, 50) : shape \in StrategyShapes, n \in StrategyLengths}
    \cup {Window(shape, n, 1) : shape \in StrategyShapes, n \in {35, 36}}
    \cup {Window(shape, n, 50) : shape \in StrategyShapes, n \in {36, 60}}

\* every combination of the votes of the four indicators of ensemble_signal
VoteCombinations == [1..4 -> {"buy", "sell", "none"}]

InitStrategy ==
    /\ \/ /\ variant \in {"bot", "forex", "ftb"}
          /\ pc = "strategy"
          /\ df \in StrategyWindows
          /\ votes = <<0, 0>>
       \/ /\ variant = "forex"
          /\ pc = "votes"
          /\ df = <<>>
          /\ votes \in VoteCombinations
    /\ now_date = 0
    /\ today_date = 0
    /\ daily_pnl = 0
    /\ symbol = ""
    /\ signal = 0
    /\ durations = <<>>
    /\ dur = 0
    /\ ret = NoReturn
    /\ delay = 0
    /\ wire = <<>>
    /\ reply = NoReply
    /\ outcome = "none"
    /\ slept = 0
    /\ dispatched = 0
    /\ pnl_before = 0

\* the call returns `sig` having taken the path `how`: "guarded" (the length
\* check returned before any indicator was computed), "computed" or "raised"
strategy_returns(sig, how) ==
    /\ pc' = "evaluated"
    /\ signal' = sig
    /\ outcome' = how
    /\ UNCHANGED <<variant, now_date, risk, symbol, df, durations, dur, ret, delay, wire,
                   reply, slept, dispatched, pnl_before>>

\* bot.py hybrid_signal_generator(df): line 149 returns before the indicators
call_hybrid_signal_generator ==
    /\ variant = "bot"
    /\ pc = "strategy"
    /\ strategy_returns(hybrid_signal_generator(df).signal,
                        IF Len(df) < HYBRID_MIN_LEN THEN "guarded" ELSE "computed")
    /\ UNCHANGED votes

\* forex.py ensemble_signal(df): no length check, the indicators are computed
\* on any window
call_ensemble_signal ==
    /\ variant = "forex"
    /\ pc = "strategy"
    /\ strategy_returns(ensemble_signal(df).signal,
                        IF ensemble_signal(df).raised THEN "raised" ELSE "computed")
    /\ votes' = ensemble_signal(df).votes

\* forex_trading_bot.py signal_generator(df): line 63 returns 0 at once
call_signal_generator ==
    /\ variant = "ftb"
    /\ pc = "strategy"
    /\ \E s \in signal_generator(df) :
          strategy_returns(s, IF Len(df) < 2 THEN "guarded" ELSE "computed")
    /\ UNCHANGED votes

\* forex.py lines 194-199 on the votes cast: the decision of ensemble_signal
decide_ensemble_signal ==
    /\ variant = "forex"
    /\ pc = "votes"
    /\ strategy_returns(ensemble_decision(CountVotes(votes, "buy"),
                                          CountVotes(votes, "sell")), "computed")
    /\ UNCHANGED votes

NextStrategy ==
    \/ call_hybrid_signal_generator
    \/ call_ensemble_signal
    \/ call_signal_generator
    \/ decide_ensemble_signal

SpecStrategy == InitStrategy /\ [][NextStrategy]_vars

\* the minimum window length of each script's strategy
W_min ==
    [bot |-> 35, forex |-> MaxOf({EMA_SLOW, BB_PERIOD, RSI_PERIOD, MACD_SLOW}) + 2,
     ftb |-> 2]

\* C10: on every window shorter than its W_min (35 for
\* hybrid_signal_generator, max(EMA_SLOW, BB_PERIOD, RSI_PERIOD, MACD_SLOW)
\* + 2 for ensemble_signal, 2 for signal_generator) a strategy returns 0
\* without raising and without computing indicators.
C10_ShortWindowIsNone ==
    pc = "evaluated" /\ Len(df) < W_min[variant] =>
        signal = 0 /\ outcome = "guarded"

\* the four predicates of one side of the Crossover-Filter on window w, from
\* the EMA and true-range series: side = 1 is the BUY side, side = -1 its
\* mirror image
CrossoverSide(w, side) ==
    LET n == Len(w)
        e9 == ema(Scaled(Close(w)), 9)
        e21 == ema(Scaled(Close(w)), 21)
    IN  /\ side * (e9[n - 1] - e21[n - 1]) <= 0
        /\ side * (e9[n] - e21[n]) > 0
        /\ side * (1000 * w[n].Close - e9[n]) > 0
        /\ side * (w[n].Close - w[n - 1].Close) > 0
        /\ atr14(w) > 14 * MIN_ATR

\* C11: on a window of at least 35 bars hybrid_signal_generator returns BUY
\* only if the four BUY predicates all hold, SELL only if the four mirrored
\* predicates all hold, NONE when neither side is complete, and the two
\* sides never both hold.
C11_ConjunctiveMirror ==
    pc = "evaluated" /\ variant = "bot" /\ Len(df) >= 35 =>
        /\ signal = 2 => CrossoverSide(df, 1)
        /\ signal = 1 => CrossoverSide(df, -1)
        /\ ~CrossoverSide(df, 1) /\ ~CrossoverSide(df, -1) => signal = 0
        /\ ~(CrossoverSide(df, 1) /\ CrossoverSide(df, -1))

\* a bearish crossing with a falling close below EMA9 but too little
\* volatility: three of the four SELL predicates hold and the result is NONE
C11_Witness ==
    /\ pc = "evaluated" /\ variant = "bot" /\ Len(df) >= 35 /\ signal = 0
    /\ bearish_cross(df) /\ bear_candle(df) /\ atr14(df) <= 14 * MIN_ATR

\* every value of the series is above the one before it
StrictlyIncreasing(series) == \A i \in 2..Len(series) : series[i] > series[i - 1]

\* C12: on a window of at least 35 bars whose closes are strictly
\* increasing hybrid_signal_generator never returns SELL.
C12_RisingNeverSell ==
    pc = "evaluated" /\ variant = "bot" /\ Len(df) >= 35 /\ StrictlyIncreasing(Close(df)) =>
        signal # 1

\* a strictly increasing, accelerating window of 60 bars with the volatility
\* filter open has been evaluated
C12_Witness ==
    /\ pc = "evaluated" /\ variant = "bot" /\ Len(df) = 60
    /\ StrictlyIncreasing(Close(df)) /\ df[60].Close - df[59].Close > 1
    /\ atr14(df) > 14 * MIN_ATR
    /\ signal # 1

\* the votes cast for a side when ensemble_signal decides
VotesFor(side) == Cardinality({i \in 1..4 : votes[i] = side})

\* C13: for every combination of the four votes ensemble_signal returns BUY
\* iff votes_buy >= VOTE_THRESHOLD and votes_buy > votes_sell, SELL iff
\* votes_sell >= VOTE_THRESHOLD and votes_sell > votes_buy, NONE otherwise;
\* a tie, and fewer than VOTE_THRESHOLD votes on either side, give NONE.
C13_EnsembleDecision ==
    pc = "evaluated" /\ variant = "forex" /\ votes \in VoteCombinations =>
        LET b == VotesFor("buy")
            s == VotesFor("sell")
        IN  /\ (signal = 2) = (b >= VOTE_THRESHOLD /\ b > s)
            /\ (signal = 1) = (s >= VOTE_THRESHOLD /\ s > b)
            /\ signal \in {0, 1, 2}
            /\ b = s => signal = 0
            /\ b < VOTE_THRESHOLD /\ s < VOTE_THRESHOLD => signal = 0

\* two votes a side: a tie at the threshold has been decided
C13_Witness ==
    /\ pc = "evaluated" /\ variant = "forex" /\ votes \in VoteCombinations
    /\ VotesFor("buy") = 2 /\ VotesFor("sell") = 2

none_delay == IF variant = "bot" THEN NONE_SIGNAL_DELAY ELSE TRADE_INTERVAL * 60

\* C15: in bot.py and forex.py the sleep after an execution call depends on
\* its outcome, a failed trade sleeping a retry delay shorter than the
\* NONE-signal delay, itself shorter than the inter-trade interval that
\* follows a successful trade; and an evaluation is only ever entered from
\* the fetch of the same cycle.
C15_PacedByOutcome ==
    [][(variant \in {"bot", "forex"}) =>
          /\ InTrade /\ pc' = "sleep" /\ ~ret'.ok =>
                0 < delay' /\ delay' < none_delay /\ none_delay < TRADE_INTERVAL * 60
          /\ InTrade /\ pc' = "sleep" /\ ret'.ok => delay' = TRADE_INTERVAL * 60
          /\ pc' = "evaluate" /\ pc # "evaluate" => pc = "candles"]_vars

(***************************************************************************)
(* The loops under an external stop signal.  asyncio.run(trading_loop())   *)
(* answers Ctrl-C by cancelling the task: CancelledError is raised at the  *)
(* await the task is suspended in; it is no Exception, so no except clause *)
(* of the scripts catches it, the open connection is closed by its         *)
(* `async with` and the loop is left.                                      *)
(***************************************************************************)
\* the positions in which the loop is suspended in an await
Awaiting ==
    pc \in {"symbol", "candles", "durations", "trade", "trade_auth", "trade_proposal",
            "trade_buy", "sleep"}

KeyboardInterrupt ==
    /\ Awaiting
    /\ pc' = "cancelled"
    /\ wire' = <<>>
    /\ UNCHANGED <<variant, now_date, risk, locals, ret, delay, reply, outcome, slept,
                   dispatched, pnl_before>>

NextInterrupt ==
    \/ Next
    \/ KeyboardInterrupt

SpecInterrupt == Init /\ [][NextInterrupt]_vars

\* C16: a stop signal ends the loop only between state transitions (at the
\* top of a cycle or in a pacing sleep), never in a network round trip: no
\* exchange is open on a connection when the loop is left.
C16_CooperativeCancellation ==
    [][pc' = "cancelled" => pc \in {"top", "sleep"} /\ wire = <<>>]_vars

\* the requests of one kind sent on the open connection
Sent(o) == {i \in 1..Len(wire) : wire[i].dir = "send" /\ wire[i].op = o}

\* C17: bot.py has one control flow: messages are on a connection only
\* inside the one execution call of the running cycle, with at most one
\* proposal and one buy sent, and the loop is at the top, fetching,
\* evaluating, sleeping or stopped only with no trade in flight.
C17_SingleControlFlow ==
    variant = "bot" =>
        /\ Cardinality(Sent("proposal")) <= 1
        /\ Cardinality(Sent("buy")) <= 1
        /\ wire # <<>> => InTrade /\ dispatched = 1
        /\ pc \in {"top", "symbol", "candles", "evaluate", "sleep", "stopped"} =>
              wire = <<>>

\* a trade is in flight (buy sent, outcome not yet known) in a cycle that
\* follows a trade with a loss
C17_Witness ==
    /\ variant = "bot" /\ pc = "trade_buy" /\ daily_pnl < 0
    /\ Cardinality(Sent("proposal")) = 1 /\ Cardinality(Sent("buy")) = 1

\* C18: in a cycle of bot.py the day reset and the stop check are made once,
\* at the top and before the symbol lookup and the candle fetch; none is
\* made between the evaluation and the dispatch; and daily_pnl is updated
\* for a trade in the step that reads the buy reply, which ends in the sleep
\* before the next cycle's check.
C18_CheckOncePerCycle ==
    [][variant = "bot" =>
          /\ pc' = "top" /\ pc' # pc => pc = "sleep"
          /\ pc' = "symbol" /\ pc' # pc => pc = "top"
          /\ pc' = "candles" /\ pc' # pc => pc = "symbol"
          /\ pc' = "evaluate" /\ pc' # pc => pc = "candles"
          /\ today_date' # today_date \/ pc' = "stopped" => pc = "top"
          /\ pc = "evaluate" /\ pc' # pc =>
                /\ pc' \in {"trade", "sleep"}
                /\ (pc' = "trade") = (signal' # 0)
                /\ UNCHANGED <<daily_pnl, today_date>>
          /\ daily_pnl' # daily_pnl /\ pc # "top" =>
                /\ pc = "trade_buy" /\ pc' = "sleep"
                /\ reply'.op = "buy" /\ ~reply'.raise]_vars

\* a trade is dispatched although midnight has passed since the cycle's
\* check: the reset waits for the top of the next cycle
C18_Witness ==
    variant = "bot" /\ pc = "trade" /\ now_date # today_date /\ daily_pnl < 0

\* C19: in bot.py daily_pnl changes only by the reset to 0 at the top of a
\* cycle whose date differs from today_date and by the addition of the
\* profit of a trade that returned True; today_date changes only in that
\* reset, to the current date; the symbol lookup, the candle fetch, the
\* evaluation, the sleeps and the failed trades change neither.
C19_TwoWriters ==
    [][variant = "bot" =>
          /\ daily_pnl' # daily_pnl =>
                IF pc = "top"
                THEN now_date # today_date /\ daily_pnl' = 0
                ELSE /\ pc = "trade_buy" /\ ret'.ok
                     /\ daily_pnl' = daily_pnl + ret'.profit
          /\ today_date' # today_date =>
                pc = "top" /\ now_date # today_date /\ today_date' = now_date
          /\ pc \in {"symbol", "candles", "evaluate", "sleep"} =>
                UNCHANGED <<daily_pnl, today_date>>
          /\ InTrade /\ pc' = "sleep" /\ ~ret'.ok =>
                UNCHANGED <<daily_pnl, today_date>>]_vars

\* after a reset and a losing trade on the new day, a cycle ends on a NONE
\* signal with both fields as the two writers left them
C19_Witness ==
    /\ variant = "bot" /\ pc = "sleep" /\ outcome = "nosignal"
    /\ today_date = 1 /\ now_date = 1 /\ daily_pnl < 0

\* the signals an evaluation of window w can return in the variant at hand
SignalsOf(w) ==
    CASE variant = "bot" -> {hybrid_signal_generator(w).signal}
      [] variant = "forex" -> {ensemble_signal(w).signal}
      [] OTHER -> signal_generator(w)

\* the last two closes of w are equal and its last two candles are no reversal
NoPattern(w) ==
    /\ Len(w) >= 2
    /\ w[Len(w)].Close = w[Len(w) - 1].Close
    /\ ~(w[Len(w)].Open > w[Len(w)].Close /\ w[Len(w) - 1].Open < w[Len(w) - 1].Close)
    /\ ~(w[Len(w)].Open < w[Len(w)].Close /\ w[Len(w) - 1].Open > w[Len(w) - 1].Close)

\* C20: in every variant the evaluation of a window has one possible signal,
\* and a window whose last two closes are equal and whose last two candles
\* are no reversal evaluates to NONE.
C20_DeterministicDefaultNone ==
    pc = "evaluated" /\ outcome # "raised" /\ Len(df) >= 2 =>
        /\ Cardinality(SignalsOf(df)) = 1
        /\ NoPattern(df) => signal = 0

\* C21: in every variant a proposal on the wire has contract type CALL when
\* the signal of the cycle is BUY (2) and PUT when it is SELL (1), and a CALL
\* or PUT proposal is on the wire only for a signal that is BUY or SELL
\* respectively.
C21_DirectionMapping ==
    \A i \in Sent("proposal") :
        /\ signal = 2 => wire[i].contract_type = "CALL"
        /\ signal = 1 => wire[i].contract_type = "PUT"
        /\ wire[i].contract_type = "CALL" => signal = 2
        /\ wire[i].contract_type = "PUT" => signal = 1

\* the difference series whose sign change is the EMA vote and the MACD vote
ema_difference(w) ==
    [i \in 1..Len(w) |-> ema(Scaled(Close(w)), EMA_FAST)[i] - ema(Scaled(Close(w)), EMA_SLOW)[i]]
macd_histogram(w) == macd(Scaled(Close(w)), MACD_FAST, MACD_SLOW, MACD_SIGNAL)

\* the last value of d has the sign of side and the one before it has not
CrossedTo(d, side) ==
    Len(d) >= 2 /\ side * d[Len(d)] > 0 /\ side * d[Len(d) - 1] <= 0

\* the last RSI of w is a number strictly between lo and hi
RsiBetween(w, lo, hi) ==
    LET r == rsi(Close(w), RSI_PERIOD)
    IN  ~r.nan /\ lo * r.den < r.num /\ r.num < hi * r.den

\* the indicators whose condition for a vote to the side holds on window w
IndicatorsFor(w, side) ==
    {k \in {"ema", "rsi", "bollinger", "macd"} :
        CASE k = "ema" -> CrossedTo(ema_difference(w), side)
          [] k = "rsi" -> IF side = 1 THEN RsiBetween(w, 55, 90) ELSE RsiBetween(w, 10, 45)
          [] k = "bollinger" ->
                IF side = 1 THEN below_lower(bollinger_bands(Close(w), BB_PERIOD, 2))
                ELSE above_upper(bollinger_bands(Close(w), BB_PERIOD, 2))
          [] OTHER -> CrossedTo(macd_histogram(w), side)}

\* C22: when ensemble_signal returns, votes_buy and votes_sell are not
\* negative and sum to at most 4; no indicator counts for both sides;
\* votes_buy counts the indicators among: EMA crossed up, 55 < RSI < 90,
\* close below the lower band, MACD histogram crossed up; and votes_sell
\* counts those among: EMA crossed down, 10 < RSI < 45, close above the
\* upper band, MACD histogram crossed down.
C22_OneVoteEach ==
    pc = "evaluated" /\ variant = "forex" /\ outcome = "computed" /\ df # <<>> =>
        /\ votes[1] >= 0 /\ votes[2] >= 0 /\ votes[1] + votes[2] <= 4
        /\ IndicatorsFor(df, 1) \cap IndicatorsFor(df, -1) = {}
        /\ votes[1] = Cardinality(IndicatorsFor(df, 1))
        /\ votes[2] = Cardinality(IndicatorsFor(df, -1))

\* on one window the RSI is within (55, 90) and the close is above the upper
\* band: one vote for each side
C22_Witness ==
    /\ pc = "evaluated" /\ variant = "forex" /\ outcome = "computed"
    /\ RsiBetween(df, 55, 90)
    /\ above_upper(bollinger_bands(Close(df), BB_PERIOD, 2))
    /\ votes[1] >= 1 /\ votes[2] >= 1

\* the durations get_available_durations returned in the cycle at hand
Available == {durations[i] : i \in 1..Len(durations)}

\* C23: in forex.py a trade is in progress only with signal BUY or SELL and
\* a non-empty list of durations; its duration, which every proposal sent
\* carries, is an available one that is at least MIN_CONTRACT_DURATION: 1
\* when 1 is available, else the smallest; and a cycle that found no
\* duration made no call and sent nothing.
C23_DurationChosen ==
    variant = "forex" =>
        /\ InTrade \/ wire # <<>> =>
              /\ signal \in {1, 2}
              /\ durations # <<>>
              /\ dur \in Available /\ dur >= MIN_CONTRACT_DURATION
              /\ 1 \in Available => dur = 1
              /\ 1 \notin Available =>
                    \A d \in Available : d >= MIN_CONTRACT_DURATION => dur <= d
              /\ \A i \in Sent("proposal") : wire[i].duration = dur
        /\ outcome = "noduration" =>
              durations = <<>> /\ dispatched = 0 /\ wire = <<>> /\ pc \in {"sleep", "top"}

\* a proposal for 2 minutes is on the wire: 1 is not available, 2 and 3 are
C23_Witness ==
    /\ variant = "forex" /\ pc = "trade_proposal" /\ durations = <<2, 3>>
    /\ \E i \in Sent("proposal") : wire[i].duration = 2

=============================================================================
